---- MODULE Spec2Model ----
(***************************************************************************)
(* Model of src/src/main.jsx: the useStateData hook (fetch, sort, pin,     *)
(* derived column list) and the DataGrid renderer that wires header clicks *)
(* to it.  One action per event-loop task: the mount effect, the two       *)
(* continuations of the fetch, and a header click.                         *)
(***************************************************************************)
EXTENDS Integers, Sequences, FiniteSets, TLC

\* ------------------------------------------------------------------ bounds
\* Largest number of rows in the fetched array.
MaxRows == 2

\* ------------------------------------------------------------ constants
ASC == "ascending"
DEC == "descending"
NULL == "null"
ERR_MSG == "Error fetching states"

\* Column names are sequences of characters, so that startsWith("_") is
\* computed and not assumed.
COL_STATE == <<"s", "t", "a", "t", "e">>
COL_POP == <<"p", "o", "p">>
COL_CAP == <<"c", "a", "p">>
COL_HID == <<"_", "i", "d">>

\* The value read from a row for a key it does not have (row[col]).
Undef == 0

\* A row is a JSON object: a sequence of <<key, value>> pairs in the order of
\* the document.  Values are positive numbers (comparable with each other).
RowPool ==
    { << <<COL_STATE, 1>>, <<COL_POP, 2>> >>,
      << <<COL_STATE, 2>>, <<COL_POP, 1>> >>,
      << <<COL_STATE, 1>>, <<COL_POP, 1>>, <<COL_CAP, 1>> >>,
      << <<COL_HID, 1>>, <<COL_STATE, 2>>, <<COL_POP, 2>> >>,
      << <<COL_POP, 1>>, <<COL_STATE, 2>>, <<COL_HID, 2>> >>,
      << <<COL_STATE, 1>> >>,
      << <<COL_HID, 2>>, <<COL_POP, 2>> >> }

\* The arrays the request can resolve to.
Datasets == UNION { [1..n -> RowPool] : n \in 0..MaxRows }

AllColumns == {COL_STATE, COL_POP, COL_CAP, COL_HID}

VARIABLES
    data,           \* useState([])                       line 52
    loading,        \* useState(false)                    line 53
    error,          \* useState(null)                     line 54
    sortedOn,       \* useState({direction, column})      line 55
    pinnedColumns,  \* useState([])                       line 56
    effectDeps,     \* the dependency list the mount effect last ran with
    req,            \* the fetch: "idle", "pending", "ok" or "failed"
    nIssued,        \* number of fetch calls made so far
    fetched,        \* the array the request resolved to
    sortRun         \* the clicks since the load: how many, and the column
                    \* when all of them were plain clicks on one column

vars == <<data, loading, error, sortedOn, pinnedColumns, effectDeps, req,
          nIssued, fetched, sortRun>>

\* ------------------------------------------------------- lodash helpers
Reverse(s) == [i \in 1..Len(s) |-> s[Len(s) + 1 - i]]

Includes(s, x) == \E i \in 1..Len(s) : s[i] = x

RECURSIVE Uniq(_)
Uniq(s) ==
    IF s = <<>> THEN <<>>
    ELSE LET front == Uniq(SubSeq(s, 1, Len(s) - 1))
             x == s[Len(s)]
         IN  IF Includes(front, x) THEN front ELSE Append(front, x)

RECURSIVE Flatten(_)
Flatten(ss) ==
    IF ss = <<>> THEN <<>> ELSE Head(ss) \o Flatten(Tail(ss))

\* Object.keys(row): the keys in document order.
ObjectKeys(row) == [i \in 1..Len(row) |-> row[i][1]]

\* row[col]
Get(row, col) ==
    IF \E i \in 1..Len(row) : row[i][1] = col
    THEN row[CHOOSE i \in 1..Len(row) : row[i][1] = col][2]
    ELSE Undef

\* lodash compareAscending on numbers and undefined: undefined sorts last.
CompareAscending(value, other) ==
    IF value = other THEN 0
    ELSE IF value = Undef THEN 1
    ELSE IF other = Undef THEN -1
    ELSE IF value > other THEN 1 ELSE -1

\* sortBy(collection, [col]): stable, ascending.
RECURSIVE SortBy(_, _)
SortBy(s, col) ==
    IF s = <<>> THEN <<>>
    ELSE LET front == SortBy(SubSeq(s, 1, Len(s) - 1), col)
             x == s[Len(s)]
             k == Cardinality({i \in 1..Len(front) :
                      CompareAscending(Get(front[i], col), Get(x, col)) <= 0})
         IN  SubSeq(front, 1, k) \o <<x>> \o SubSeq(front, k + 1, Len(front))

\* key.startsWith("_")
StartsWithUnderscore(key) == Len(key) > 0 /\ key[1] = "_"

\* ------------------------------------------------------- derived state
\* The row keys without the underscore filter.
InitialColumnsUnfiltered ==
    Uniq(Flatten([i \in 1..Len(data) |-> ObjectKeys(data[i])]))

InitialColumns ==
    Uniq(Flatten([i \in 1..Len(data) |->
        SelectSeq(ObjectKeys(data[i]), LAMBDA key : ~StartsWithUnderscore(key))]))

\* The column list with the pinned columns spread last.
NewColumnsPinnedLast == Uniq(InitialColumns \o pinnedColumns)

\* The column list seeded with the default sort column.
NewColumnsWithDefault == Uniq(<<COL_STATE>> \o pinnedColumns \o InitialColumns)

NewColumns == Uniq(pinnedColumns \o InitialColumns)

\* A dependency list that changes with the data.
GetStatesDataDepsOnData == <<"setData", "setLoading", "setError", data>>

\* The dependency list of the mount effect: getStatesData, whose identity is
\* fixed by its own dependency list of state setters.
GetStatesDataDeps == <<"setData", "setLoading", "setError">>

\* The early returns without the one for the error.
ScreenWithoutError == IF loading THEN "loading" ELSE "table"

\* DataGrid's early returns: which of the three trees is rendered.
Screen ==
    IF loading THEN "loading"
    ELSE IF error # NULL THEN "error"
    ELSE "table"

\* The <tbody>: one cell per row and column, holding row[col].
TableBody(rows, columns) ==
    [i \in 1..Len(rows) |->
        [j \in 1..Len(columns) |-> Get(rows[i], columns[j])]]

\* What DataGrid returns: the header cells and the body exist in the table
\* tree only.
DataGrid ==
    [kind |-> Screen,
     headers |-> IF Screen = "table" THEN NewColumns ELSE <<>>,
     rows |-> IF Screen = "table" THEN TableBody(data, NewColumns) ELSE <<>>]

\* --------------------------------------------------------------- Init
DefaultSort == [direction |-> ASC, column |-> COL_STATE]

Init ==
    /\ data = <<>>
    /\ loading = FALSE
    /\ error = NULL
    /\ sortedOn = DefaultSort
    /\ pinnedColumns = <<>>
    /\ effectDeps = <<"unmounted">>
    /\ req = "idle"
    /\ nIssued = 0
    /\ fetched = <<>>
    /\ sortRun = [n |-> 0, column |-> <<>>]

\* ------------------------------------------------------------ actions
\* useEffect(() => getStatesData(), [getStatesData]) up to the first await.
MountEffect ==
    /\ effectDeps # GetStatesDataDeps
    /\ effectDeps' = GetStatesDataDeps
    /\ loading' = TRUE
    /\ req' = "pending"
    /\ nIssued' = nIssued + 1
    /\ UNCHANGED <<data, error, sortedOn, pinnedColumns, fetched, sortRun>>

\* A success continuation that leaves the loading flag set.
FetchSuccessStillLoading(statesData) ==
    /\ req = "pending"
    /\ req' = "ok"
    /\ data' = statesData
    /\ fetched' = statesData
    /\ sortRun' = [n |-> 0, column |-> <<>>]
    /\ UNCHANGED <<loading, error, sortedOn, pinnedColumns, effectDeps, nIssued>>

\* getStatesData after both awaits resolved: setLoading(false), then
\* setData(statesData), in one task of the event loop (no click can come
\* between the two calls, and the render between them has no header cell).
FetchSuccess(statesData) ==
    /\ req = "pending"
    /\ req' = "ok"
    /\ loading' = FALSE
    /\ data' = statesData
    /\ fetched' = statesData
    /\ sortRun' = [n |-> 0, column |-> <<>>]
    /\ UNCHANGED <<error, sortedOn, pinnedColumns, effectDeps, nIssued>>

\* A catch block that reports nothing.
FetchFailureSilent ==
    /\ req = "pending"
    /\ req' = "failed"
    /\ loading' = FALSE
    /\ UNCHANGED <<data, error, sortedOn, pinnedColumns, effectDeps, nIssued,
                   fetched, sortRun>>

\* getStatesData's catch block, taken when fetch or res.json() rejects.
FetchFailure ==
    /\ req = "pending"
    /\ req' = "failed"
    /\ loading' = FALSE
    /\ error' = ERR_MSG
    /\ UNCHANGED <<data, sortedOn, pinnedColumns, effectDeps, nIssued,
                   fetched, sortRun>>

\* A pin toggle that puts a newly pinned column in front.
TogglePinnedPrepend(currentPinned, col) ==
    IF Includes(currentPinned, col)
    THEN SelectSeq(currentPinned, LAMBDA c : c # col)
    ELSE <<col>> \o currentPinned

\* A pin toggle that never takes the removal branch.
TogglePinnedAlwaysAppend(currentPinned, col) == Append(currentPinned, col)

\* The updater handlePinning passes to setPinnedColumns.
TogglePinned(currentPinned, col) ==
    IF Includes(currentPinned, col)
    THEN SelectSeq(currentPinned, LAMBDA c : c # col)
    ELSE Append(currentPinned, col)

\* A pin handler that also puts the sort back to its default.
HandlePinningResets(col) ==
    /\ pinnedColumns' = TogglePinned(pinnedColumns, col)
    /\ sortedOn' = DefaultSort
    /\ data' = SortBy(data, COL_STATE)

HandlePinning(col) ==
    /\ pinnedColumns' = TogglePinned(pinnedColumns, col)
    /\ UNCHANGED <<data, sortedOn>>

\* A sort whose first click on a column orders equal values last-first.
HandleSortUnstable(col) ==
    IF sortedOn.column = col
    THEN IF sortedOn.direction = ASC
         THEN /\ sortedOn' = [sortedOn EXCEPT !.direction = DEC]
              /\ data' = Reverse(SortBy(data, col))
         ELSE /\ sortedOn' = [direction |-> ASC, column |-> COL_STATE]
              /\ data' = SortBy(data, COL_STATE)
    ELSE /\ sortedOn' = [direction |-> ASC, column |-> col]
         /\ data' = SortBy(Reverse(data), col)

\* A sort whose descending order is a stable descending sort of its own.
HandleSortStableDescending(col) ==
    IF sortedOn.column = col
    THEN IF sortedOn.direction = ASC
         THEN /\ sortedOn' = [sortedOn EXCEPT !.direction = DEC]
              /\ data' = Reverse(SortBy(Reverse(data), col))
         ELSE /\ sortedOn' = [direction |-> ASC, column |-> COL_STATE]
              /\ data' = SortBy(data, COL_STATE)
    ELSE /\ sortedOn' = [direction |-> ASC, column |-> col]
         /\ data' = SortBy(data, col)

\* A sort whose first click on a column leaves out the rows without it.
HandleSortDropsMissing(col) ==
    IF sortedOn.column = col
    THEN IF sortedOn.direction = ASC
         THEN /\ sortedOn' = [sortedOn EXCEPT !.direction = DEC]
              /\ data' = Reverse(SortBy(data, col))
         ELSE /\ sortedOn' = [direction |-> ASC, column |-> COL_STATE]
              /\ data' = SortBy(data, COL_STATE)
    ELSE /\ sortedOn' = [direction |-> ASC, column |-> col]
         /\ data' = SelectSeq(SortBy(data, col), LAMBDA row : Get(row, col) # Undef)

\* A sort that toggles between the two directions of one column.
HandleSortTwoWay(col) ==
    IF sortedOn.column = col
    THEN IF sortedOn.direction = ASC
         THEN /\ sortedOn' = [sortedOn EXCEPT !.direction = DEC]
              /\ data' = Reverse(SortBy(data, col))
         ELSE /\ sortedOn' = [sortedOn EXCEPT !.direction = ASC]
              /\ data' = SortBy(data, col)
    ELSE /\ sortedOn' = [direction |-> ASC, column |-> col]
         /\ data' = SortBy(data, col)

HandleSort(col) ==
    IF sortedOn.column = col
    THEN IF sortedOn.direction = ASC
         THEN /\ sortedOn' = [sortedOn EXCEPT !.direction = DEC]
              /\ data' = Reverse(SortBy(data, col))
         ELSE /\ sortedOn' = [direction |-> ASC, column |-> COL_STATE]
              /\ data' = SortBy(data, COL_STATE)
    ELSE /\ sortedOn' = [direction |-> ASC, column |-> col]
         /\ data' = SortBy(data, col)

\* The run of clicks since the load, for the properties about consecutive
\* calls: n saturates, the column is kept while every click was Sort(column).
NoRun == <<>>
MaxRun == 4

NextRun(run, col, metaKey) ==
    [n |-> IF run.n < MaxRun THEN run.n + 1 ELSE MaxRun,
     column |-> IF ~metaKey /\ run.n < MaxRun - 1 /\ (run.n = 0 \/ run.column = col)
                THEN col ELSE NoRun]

\* A click handler whose modified click pins and sorts.
OnClickBoth(col, metaKey) ==
    /\ Screen = "table"
    /\ Includes(NewColumns, col)
    /\ HandleSort(col)
    /\ pinnedColumns' = IF metaKey THEN TogglePinned(pinnedColumns, col)
                                   ELSE pinnedColumns
    /\ sortRun' = NextRun(sortRun, col, metaKey)
    /\ UNCHANGED <<loading, error, effectDeps, req, nIssued, fetched>>

\* A click handler reachable for columns that have no header cell.
OnClickAnyColumn(col, metaKey) ==
    /\ Screen = "table"
    /\ IF metaKey
       THEN HandlePinning(col)
       ELSE HandleSort(col) /\ UNCHANGED pinnedColumns
    /\ sortRun' = NextRun(sortRun, col, metaKey)
    /\ UNCHANGED <<loading, error, effectDeps, req, nIssued, fetched>>

\* A click on the header cell of col: onClick(col)(event).
OnClick(col, metaKey) ==
    /\ Screen = "table"
    /\ Includes(NewColumns, col)
    /\ IF metaKey
       THEN HandlePinning(col)
       ELSE HandleSort(col) /\ UNCHANGED pinnedColumns
    /\ sortRun' = NextRun(sortRun, col, metaKey)
    /\ UNCHANGED <<loading, error, effectDeps, req, nIssued, fetched>>

Next ==
    \/ MountEffect
    \/ \E statesData \in Datasets : FetchSuccess(statesData)
    \/ FetchFailure
    \/ \E col \in AllColumns, metaKey \in BOOLEAN : OnClick(col, metaKey)

Spec == Init /\ [][Next]_vars

\* The effect runs after the first render and the request settles.
FairSpec == Spec /\ WF_vars(MountEffect)
                 /\ WF_vars(FetchFailure \/ \E statesData \in Datasets : FetchSuccess(statesData))

\* ------------------------------------------------------------ predicates
NonDecreasing(s, col) ==
    \A i \in 1..(Len(s) - 1) :
        CompareAscending(Get(s[i], col), Get(s[i + 1], col)) <= 0

Occurrences(s, x) == Cardinality({i \in 1..Len(s) : s[i] = x})

IsPermutation(s, t) ==
    /\ Len(s) = Len(t)
    /\ \A i \in 1..Len(s) : Occurrences(s, s[i]) = Occurrences(t, s[i])

NoDuplicates(s) == \A i, j \in 1..Len(s) : s[i] = s[j] => i = j

Elements(s) == {s[i] : i \in 1..Len(s)}

TwicePinned(c) == TogglePinned(TogglePinned(pinnedColumns, c), c)

\* ---------------------------------------------------------------- C1
\* C1 as stated: for every column c and every reachable PinnedColumns,
\* TogglePin(c) twice gives back the same sequence, content and order.
C1_TwiceRestoresOrder ==
    \A c \in AllColumns : TwicePinned(c) = pinnedColumns

\* C1 amended: TogglePin(c) twice always gives back the same content; it gives
\* back the same order when c was unpinned or was the last pinned column, and
\* otherwise moves c to the end, the other entries keeping their order.
C1_TwiceRestoresContent ==
    \A c \in AllColumns :
        /\ Elements(TwicePinned(c)) = Elements(pinnedColumns)
        /\ Len(TwicePinned(c)) = Len(pinnedColumns)
        /\ IF Includes(pinnedColumns, c) /\ pinnedColumns[Len(pinnedColumns)] # c
           THEN /\ TwicePinned(c) # pinnedColumns
                /\ TwicePinned(c) =
                      Append(SelectSeq(pinnedColumns, LAMBDA x : x # c), c)
           ELSE TwicePinned(c) = pinnedColumns

\* Two columns are pinned, so the first one is pinned and not last.
C1_Witness == pinnedColumns = <<COL_POP, COL_STATE>>

\* ---------------------------------------------------------------- C2
\* Every fetched row has a value for c, so the values of c are comparable.
Comparable(c) == \A i \in 1..Len(fetched) : Get(fetched[i], c) # Undef

\* The k-th click since the load was Sort(c), and so were the ones before it.
SortRunReaches(k, c) ==
    sortRun'.n = k /\ sortRun'.column = c /\ Comparable(c)

FirstSortAscending(c) ==
    SortRunReaches(1, c) =>
        /\ NonDecreasing(data', c)
        /\ IsPermutation(data', fetched)

SecondSortReverses(c) ==
    SortRunReaches(2, c) => data' = Reverse(data)

ThirdSortResets(c) ==
    SortRunReaches(3, c) =>
        /\ NonDecreasing(data', COL_STATE)
        /\ IsPermutation(data', fetched)
        /\ sortedOn' = DefaultSort

\* C2 as stated: right after the load, for every column c ("state" included)
\* the first Sort(c) orders the rows non-decreasing by c, the second gives the
\* exact reverse of the first result, the third orders them ascending by
\* "state" with SortState back at the default.
C2_ThreeSortsAnyColumn ==
    [][\A c \in AllColumns :
          FirstSortAscending(c) /\ SecondSortReverses(c) /\ ThirdSortResets(c)]_vars

\* C2 amended: the three steps hold for every column c other than "state".
\* For c = "state", which SortState already names after the load, the first
\* Sort gives the reverse of the stable ascending order by "state" with
\* SortState {state, DESCENDING}, the second gives the rows ascending by
\* "state" with the default SortState, and the third is as the first.
C2_ThreeSortsOtherColumn ==
    [][/\ \A c \in AllColumns \ {COL_STATE} :
             FirstSortAscending(c) /\ SecondSortReverses(c) /\ ThirdSortResets(c)
       /\ SortRunReaches(1, COL_STATE) =>
             /\ data' = Reverse(SortBy(fetched, COL_STATE))
             /\ sortedOn' = [direction |-> DEC, column |-> COL_STATE]
       /\ SortRunReaches(2, COL_STATE) =>
             /\ NonDecreasing(data', COL_STATE)
             /\ IsPermutation(data', fetched)
             /\ sortedOn' = DefaultSort
       /\ SortRunReaches(3, COL_STATE) =>
             /\ data' = Reverse(SortBy(data, COL_STATE))
             /\ sortedOn' = [direction |-> DEC, column |-> COL_STATE]]_vars

\* Three Sort("pop") in a row after the load of two rows that "pop" and
\* "state" order differently.
C2_Witness ==
    /\ sortRun = [n |-> 3, column |-> COL_POP]
    /\ Comparable(COL_POP)
    /\ Len(fetched) = 2
    /\ ~NonDecreasing(fetched, COL_POP)
    /\ NonDecreasing(fetched, COL_STATE)
    /\ data = fetched

\* ---------------------------------------------------------------- C3
\* C3 as stated: for every column c, a Sort(c) made while SortState is
\* {c, DESCENDING} (reached from {c, ASCENDING} by the Sort(c) before it)
\* never gives {c, ASCENDING}.
C3_NeverTwoWay ==
    [][\A c \in AllColumns :
          (sortedOn = [direction |-> DEC, column |-> c] /\ OnClick(c, FALSE))
              => sortedOn' # [direction |-> ASC, column |-> c]]_vars

\* C3 amended: the same for every column c other than "state"; on "state"
\* the reset is {state, ASCENDING} itself, so repeated Sort("state")
\* alternates between the two directions.
C3_NeverTwoWayOtherColumn ==
    [][/\ \A c \in AllColumns \ {COL_STATE} :
             (sortedOn = [direction |-> DEC, column |-> c] /\ OnClick(c, FALSE))
                 => sortedOn' = DefaultSort
       /\ (sortedOn = [direction |-> DEC, column |-> COL_STATE]
               /\ OnClick(COL_STATE, FALSE))
             => sortedOn' = [direction |-> ASC, column |-> COL_STATE]]_vars

\* Sort("cap") three times since the load: ascending, descending, reset.
C3_Witness ==
    /\ sortRun = [n |-> 3, column |-> COL_CAP]
    /\ sortedOn = DefaultSort

\* ---------------------------------------------------------------- C4
RowKeys == UNION {Elements(ObjectKeys(data[i])) : i \in 1..Len(data)}

PinnedFirst ==
    /\ NoDuplicates(NewColumns)
    /\ Len(NewColumns) >= Len(pinnedColumns)
    /\ SubSeq(NewColumns, 1, Len(pinnedColumns)) = pinnedColumns
    /\ \A j \in (Len(pinnedColumns) + 1)..Len(NewColumns) :
          ~Includes(pinnedColumns, NewColumns[j])

\* C4 as stated: ColumnList holds every key of every row exactly once, the
\* pinned columns first and in pin order.
C4_EveryKeyListed ==
    /\ \A key \in RowKeys : Includes(NewColumns, key)
    /\ PinnedFirst

\* C4 amended: ColumnList holds every key of every row that does not begin
\* with an underscore, each exactly once, the pinned columns before the
\* unpinned ones and in pin insertion order.
C4_EveryDisplayedKeyListed ==
    /\ \A key \in RowKeys : ~StartsWithUnderscore(key) => Includes(NewColumns, key)
    /\ PinnedFirst

\* Two columns are pinned against the order of the row keys, a third one is
\* not, and a row carries an underscore key.
C4_Witness ==
    /\ pinnedColumns = <<COL_CAP, COL_POP>>
    /\ NewColumns = <<COL_CAP, COL_POP, COL_STATE>>
    /\ COL_HID \in RowKeys

\* ---------------------------------------------------------------- C5
\* C5: no column name beginning with an underscore is in ColumnList, in the
\* rendered header cells or among the pinned columns.
C5_NoUnderscoreColumn ==
    /\ \A j \in 1..Len(NewColumns) : ~StartsWithUnderscore(NewColumns[j])
    /\ \A j \in 1..Len(DataGrid.headers) : ~StartsWithUnderscore(DataGrid.headers[j])
    /\ \A j \in 1..Len(pinnedColumns) : ~StartsWithUnderscore(pinnedColumns[j])

\* Every row carries an underscore key, and a column has been pinned.
C5_Witness ==
    /\ Len(data) = 2
    /\ \A i \in 1..Len(data) : Includes(ObjectKeys(data[i]), COL_HID)
    /\ Len(pinnedColumns) = 1
    /\ Len(DataGrid.headers) = 2

\* ---------------------------------------------------------------- C6
\* C6: once the fetch has failed the error message is set, loading is false
\* and Dataset is empty, and no later step changes Dataset, loading or error
\* or issues another request.
C6_FailureIsTerminal ==
    /\ [](req = "failed" =>
            error = ERR_MSG /\ ~loading /\ data = <<>> /\ nIssued = 1)
    /\ [][req = "failed" => UNCHANGED <<data, loading, error, req, nIssued>>]_vars
    /\ [][(req = "pending" /\ req' = "failed") =>
            (error' = ERR_MSG /\ ~loading' /\ data' = <<>>)]_vars

\* The request has failed.
C6_Witness == req = "failed" /\ DataGrid.kind = "error"

\* ---------------------------------------------------------------- C7
Settled == req \in {"ok", "failed"}

\* C7: loading is true while the request is pending; once it has settled
\* loading is false and stays false; on success Dataset becomes the fetched
\* array; and a pending request leads to loading being false.
C7_LoadingTracksRequest ==
    /\ [](req = "pending" => loading)
    /\ [](Settled => ~loading)
    /\ [][Settled => Settled']_vars
    /\ [][(req = "pending" /\ req' = "ok") =>
            (data' = fetched' /\ ~loading' /\ error' = NULL)]_vars
    /\ (req = "pending") ~> (Settled /\ ~loading)

\* A non-empty array has been loaded and the table has been clicked since.
C7_Witness ==
    /\ req = "ok"
    /\ ~loading
    /\ Len(fetched) = 2
    /\ sortRun.n = 2

\* ---------------------------------------------------------------- C8
\* C8: the request is issued once, by the mount effect; no later event issues
\* a second one, so at most one request is ever in flight.
C8_SingleRequest ==
    /\ nIssued <= 1
    /\ (req = "idle") = (nIssued = 0)

\* The load has succeeded and clicks of both kinds have followed it.
C8_Witness ==
    /\ req = "ok"
    /\ nIssued = 1
    /\ sortRun.n = 3
    /\ Len(pinnedColumns) = 1
    /\ sortedOn # DefaultSort

\* ---------------------------------------------------------------- C9
\* C9: the view is the loading indicator alone while loading, the error
\* message alone when not loading and the error is set, and the table
\* otherwise; no header or row exists outside the table view.
C9_OneView ==
    /\ DataGrid.kind \in {"loading", "error", "table"}
    /\ loading => DataGrid.kind = "loading"
    /\ (~loading /\ error # NULL) => DataGrid.kind = "error"
    /\ (~loading /\ error = NULL) => DataGrid.kind = "table"
    /\ (loading \/ error # NULL) =>
          (DataGrid.headers = <<>> /\ DataGrid.rows = <<>>)
    /\ req = "pending" => DataGrid.kind = "loading"
    /\ req = "failed" => DataGrid.kind = "error"
    /\ req = "ok" => (DataGrid.kind = "table" /\ Len(DataGrid.rows) = Len(data))

\* The table is rendered with three header cells and two rows.
C9_Witness ==
    /\ DataGrid.kind = "table"
    /\ Len(DataGrid.headers) = 3
    /\ Len(DataGrid.rows) = 2

\* --------------------------------------------------------------- C10
\* C10: PinnedColumns holds each column name at most once.
C10_PinnedOnce == NoDuplicates(pinnedColumns)

\* Every displayed column is pinned, after a pin that was taken back.
C10_Witness ==
    /\ Len(pinnedColumns) = 3
    /\ pinnedColumns # InitialColumns
    /\ sortRun.n = MaxRun

\* --------------------------------------------------------------- C11
\* C11: TogglePin(c) on a pinned c gives the old sequence with c removed, the
\* other entries in their order; on an unpinned c it gives the old sequence
\* with c appended at the end.
C11_TogglePinEffect ==
    [][\A c \in AllColumns :
          OnClick(c, TRUE) =>
              IF Includes(pinnedColumns, c)
              THEN \E k \in 1..Len(pinnedColumns) :
                      /\ pinnedColumns[k] = c
                      /\ pinnedColumns' =
                            SubSeq(pinnedColumns, 1, k - 1)
                              \o SubSeq(pinnedColumns, k + 1, Len(pinnedColumns))
              ELSE /\ Len(pinnedColumns') = Len(pinnedColumns) + 1
                   /\ pinnedColumns'[Len(pinnedColumns')] = c
                   /\ SubSeq(pinnedColumns', 1, Len(pinnedColumns)) = pinnedColumns]_vars

\* TogglePin(pop), TogglePin(cap), TogglePin(pop): three clicks, cap is left.
C11_Witness ==
    /\ pinnedColumns = <<COL_CAP>>
    /\ sortRun = [n |-> 3, column |-> NoRun]
    /\ sortedOn = DefaultSort
    /\ data = fetched

\* --------------------------------------------------------------- C12
\* The rows of s whose value of col is v, in their order in s.
RowsWithValue(s, col, v) == SelectSeq(s, LAMBDA row : Get(row, col) = v)

ValuesOf(s, col) == {Get(s[i], col) : i \in 1..Len(s)}

\* C12: Sort(c) on a column other than the sorted one sets SortState to
\* {c, ASCENDING} and makes Dataset a stable ascending ordering by c: the
\* same rows, non-decreasing by c, rows of equal value in their old order.
C12_FirstClickStableAscending ==
    [][\A c \in AllColumns :
          (sortedOn.column # c /\ OnClick(c, FALSE)) =>
              /\ sortedOn' = [direction |-> ASC, column |-> c]
              /\ NonDecreasing(data', c)
              /\ IsPermutation(data', data)
              /\ \A v \in ValuesOf(data, c) :
                    RowsWithValue(data', c, v) = RowsWithValue(data, c, v)]_vars

\* Sorted by "pop", two different rows of equal "pop" that a sort by "state"
\* had put in the other order.
C12_Witness ==
    /\ sortedOn = [direction |-> ASC, column |-> COL_POP]
    /\ sortRun.n = 3
    /\ Len(data) = 2
    /\ data[1] # data[2]
    /\ Get(data[1], COL_POP) = Get(data[2], COL_POP)
    /\ data # fetched

\* --------------------------------------------------------------- C13
\* C13: Sort(c) at {c, ASCENDING} sets the direction to DESCENDING, keeps the
\* column, and makes Dataset the reverse of the stable ascending ordering of
\* the current rows by c: non-increasing by c, rows of equal value in the
\* reverse of their old order.
C13_SecondClickReverses ==
    [][\A c \in AllColumns :
          (sortedOn = [direction |-> ASC, column |-> c] /\ OnClick(c, FALSE)) =>
              /\ sortedOn' = [direction |-> DEC, column |-> c]
              /\ NonDecreasing(Reverse(data'), c)
              /\ IsPermutation(data', data)
              /\ \A v \in ValuesOf(data, c) :
                    RowsWithValue(data', c, v) = Reverse(RowsWithValue(data, c, v))]_vars

\* Descending by "pop" with two different rows of equal "pop": they stand in
\* the reverse of the order the ascending sort had kept.
C13_Witness ==
    /\ sortedOn = [direction |-> DEC, column |-> COL_POP]
    /\ sortRun = [n |-> 2, column |-> COL_POP]
    /\ Len(data) = 2
    /\ data[1] # data[2]
    /\ Get(data[1], COL_POP) = Get(data[2], COL_POP)
    /\ data = Reverse(fetched)

\* --------------------------------------------------------------- C14
\* C14: TogglePin(c) leaves SortState, the Dataset sequence, loading and
\* error as they were.
C14_TogglePinFrame ==
    [][\A c \in AllColumns :
          OnClick(c, TRUE) =>
              (pinnedColumns' # pinnedColumns
                 /\ UNCHANGED <<sortedOn, data, loading, error>>)]_vars

\* A pin made while the rows are sorted descending by "pop", out of their
\* fetched order.
C14_Witness ==
    /\ Len(pinnedColumns) = 1
    /\ sortedOn = [direction |-> DEC, column |-> COL_POP]
    /\ sortRun = [n |-> 3, column |-> NoRun]
    /\ data # fetched
    /\ data # SortBy(data, COL_STATE)

\* --------------------------------------------------------------- C15
\* C15: a header click with the modifier key changes PinnedColumns and
\* neither SortState nor Dataset; a click without it changes SortState (and
\* Dataset by the sort) and not PinnedColumns; no step changes both.
C15_OneHandlerPerClick ==
    /\ [][\A c \in AllColumns :
            /\ OnClick(c, TRUE) =>
                  /\ pinnedColumns' = TogglePinned(pinnedColumns, c)
                  /\ pinnedColumns' # pinnedColumns
                  /\ UNCHANGED <<sortedOn, data>>
            /\ OnClick(c, FALSE) =>
                  /\ UNCHANGED pinnedColumns
                  /\ sortedOn' # sortedOn
                  /\ IsPermutation(data', data)]_vars
    /\ [][pinnedColumns' = pinnedColumns
            \/ (sortedOn' = sortedOn /\ data' = data)]_vars

\* One click of each kind since the load.
C15_Witness ==
    /\ sortRun.n = 2
    /\ pinnedColumns = <<COL_POP>>
    /\ sortedOn = [direction |-> ASC, column |-> COL_CAP]

\* --------------------------------------------------------------- C16
\* The rows are in the order SortState names.
OrderAgrees ==
    IF sortedOn.direction = ASC
    THEN NonDecreasing(data, sortedOn.column)
    ELSE NonDecreasing(Reverse(data), sortedOn.column)

\* C16: after a successful load the order of Dataset agrees with SortState,
\* non-decreasing by its column when ASCENDING and non-increasing when
\* DESCENDING, the state right after the load included.
\* (Stated for the rows that all have the sorted column, the case in which
\* the order by that column needs no convention for missing values.)
C16_OrderAgreesWithSortState ==
    (req = "ok" /\ Comparable(sortedOn.column)) => OrderAgrees

\* --------------------------------------------------------------- C17
AClick == \E c \in AllColumns, m \in BOOLEAN : OnClick(c, m)

\* C17: while loading is true, the error is set or Dataset is empty, no
\* header cell exists and no click is enabled; every Sort and TogglePin
\* happens after a successful load, on a non-empty column list.
C17_ClicksOnlyAfterLoad ==
    /\ []((loading \/ error # NULL \/ data = <<>>) =>
            (DataGrid.headers = <<>> /\ ~ENABLED AClick))
    /\ [][AClick =>
            (req = "ok" /\ ~loading /\ error = NULL /\ data # <<>>
               /\ NewColumns # <<>>)]_vars

\* A click has been made on the table of a loaded one-row array.
C17_Witness ==
    /\ req = "ok"
    /\ Len(fetched) = 1
    /\ sortRun.n = 1
    /\ pinnedColumns = <<COL_CAP>>

\* --------------------------------------------------------------- C18
\* C18: after a successful load Dataset is a permutation of the fetched
\* array, whatever Sort and TogglePin operations have followed.
C18_DataIsPermutationOfFetched ==
    /\ req = "ok" => IsPermutation(data, fetched)
    /\ req # "ok" => data = <<>>

\* Sorts have left the two fetched rows in the reverse of their fetched order.
C18_Witness ==
    /\ sortRun.n = MaxRun
    /\ Len(fetched) = 2
    /\ data # fetched
    /\ data = Reverse(fetched)

\* --------------------------------------------------------------- C19
\* The keys of the rows of s that do not begin with an underscore.
DisplayedKeys(s) ==
    {key \in UNION {Elements(ObjectKeys(s[i])) : i \in 1..Len(s)} :
        ~StartsWithUnderscore(key)}

\* C19: every pinned column is a key of some row of Dataset that does not
\* begin with an underscore, ColumnList holds exactly those keys, and they are
\* the displayed keys of the fetched array at every moment, so that no
\* TogglePin or Sort changes the set of columns in ColumnList.
C19_PinnedAreDataColumns ==
    /\ Elements(pinnedColumns) \subseteq DisplayedKeys(data)
    /\ Elements(NewColumns) = DisplayedKeys(data)
    /\ Elements(NewColumns) = DisplayedKeys(fetched)

\* All three displayed columns are pinned, in an order of the clicks.
C19_Witness ==
    /\ pinnedColumns = <<COL_CAP, COL_STATE, COL_POP>>
    /\ Elements(NewColumns) = {COL_STATE, COL_POP, COL_CAP}
    /\ COL_HID \in RowKeys

====
